---- MODULE Spec2Model ----
(***************************************************************************)
(* The refresh loop of the terminal process monitor (src/src/main.rs).     *)
(*                                                                         *)
(* One pass of `loop { ... }` in main is two steps of the model:           *)
(*   Scan      lines 70-194: read the processes, build the children maps,  *)
(*             sort, render;                                               *)
(*   Key...    lines 196-305: poll one event and run its match arm.        *)
(* pc is the position of main: "scan" at the top of the loop body, "poll"  *)
(* after terminal.draw, "quit" after the break, "panic" after an           *)
(* arithmetic overflow panic or a failed expect, "error" after a `?` that  *)
(* returned Err, "hung" inside a draw that never returns.                  *)
(*                                                                         *)
(* The functions called once per pass or once per process are also taken   *)
(* alone, over more inputs than the loop draws:                            *)
(*   Measure      uptime, calculate_cpu_usage, calculate_memory_usage;     *)
(*   GetCrashLogs get_crash_logs.                                          *)
(***************************************************************************)
EXTENDS Integers, Sequences, FiniteSets, TLC

VARIABLES
    overflow_checks, \* whether the build panics on integer overflow (it wraps otherwise)
    pc,              \* position of main
    scroll_offset,   \* main.rs:58
    selected_index,  \* main.rs:59
    sort_criteria,   \* main.rs:60
    view_state,      \* main.rs:61
    tree_view_pid,   \* main.rs:62  Option<i32>: <<>> is None, <<p>> is Some(p)
    view_i,          \* main.rs:67
    process_map,     \* main.rs:92  HashMap<i32, Process> of this pass
    processes,       \* main.rs:137 Vec<&Process> of this pass, as the pids referred to
    display,         \* what terminal.draw put in chunks[1] in this pass
    signal,          \* the kill() call made in this pass: <<>> or <<[pid, sig, ok]>>
    failed,          \* the call whose failure ended main: <<>> while main runs
    proc_reads,      \* main.rs:93-96 what all_processes() and the reads of each entry gave
    dmesg,           \* main.rs:314-317 what Command::output() gave: <<>> before the call
    crash_history,   \* main.rs:79  <<>> before the call, <<lines>> after it
    stat,            \* the Stat given to the metric functions, main.rs:97-98
    sys,             \* what the system calls of the metric functions return
    metrics          \* <<>> or <<[uptime, cpu_usage, mem_usage]>>, main.rs:70, 97, 98

vars == <<overflow_checks, pc, scroll_offset, selected_index, sort_criteria, view_state,
          tree_view_pid, view_i, process_map, processes, display, signal,
          failed, proc_reads, dmesg, crash_history, stat, sys, metrics>>

viewvars == <<scroll_offset, selected_index, sort_criteria, view_state,
              tree_view_pid, view_i>>

\* the locals of one pass of the loop
passvars == <<process_map, processes, display, signal, proc_reads, dmesg, crash_history>>

\* the inputs and the result of the metric functions
metricvars == <<stat, sys, metrics>>

----------------------------------------------------------------------------
(* Bounds of the inputs *)

\* pids of the small snapshots are drawn from 1..MaxPid
MaxPid == 3

\* the large snapshot has the pids 1..MaxProcs (more than one window of rows)
MaxProcs == 21

\* utime of a Stat is 0..MaxTicks or 50 ticks
MaxTicks == 1

\* the clock shows 0..MaxSecs seconds since the epoch
MaxSecs == 2

\* the output of dmesg has at most MaxLines lines
MaxLines == 3

\* a u64 of the model has WordBits bits
WordBits == 10

(* Program constants *)

\* rows of the process table: `.take(20)` and `scroll_offset + 20`
VisibleRows == 20

\* number of entries of view_states: `% 3`
NumViews == 3

\* ticks_per_second().unwrap_or(100)
DefaultHertz == 100

\* `/ 1024.0`: bytes in a KB, KB in a MB
Kilo == 1024

None == <<>>
Some(x) == <<x>>

view_states == <<"Processes", "CrashTracking", "ProcessTree">>

SortCriteria == {"CPU", "Memory", "PID", "PR"}

Min(a, b) == IF a <= b THEN a ELSE b

----------------------------------------------------------------------------
(* The inputs of a pass: the processes whose stat and status were read.    *)
(* A snapshot is a function from the pids read to their ppid.              *)

\* the metrics of a process, fixed per pid; several pids tie on each
CpuOf(p) == (2 * p) % 3
MemOf(p) == p % 2
PriorityOf(p) == 20 - (p % 3)

\* parents are older pids, the pid itself, or 0
SmallSnapshots ==
    UNION { { f \in [S -> 0..MaxPid] : \A p \in S : f[p] <= p } : S \in SUBSET (1..MaxPid) }

\* the parent is the pid before or 0: chains of processes
ChainSnapshots ==
    UNION { { f \in [S -> 0..MaxPid] : \A p \in S : f[p] \in {0, p - 1} }
            : S \in SUBSET (1..MaxPid) }

\* no process, one process, or more than a window of them under pid 1
WideSnapshots ==
    { [p \in 1..n |-> IF p = 1 THEN 0 ELSE 1] : n \in {0, 1, MaxProcs} }

\* what can go wrong with one entry of all_processes(): the entry itself is
\* Err (line 94), proc.stat() is Err (line 95), proc.status() is Err (line 96)
ReadErrors == {"entry", "stat", "status"}

\* the entries that come to nothing: a function from their pids to the error
NoneLost == {<<>>}

LostReads == UNION { [S -> ReadErrors] : S \in SUBSET (1..MaxPid) }

\* the entries of all_processes() with what their reads give: the processes
\* of snap are read, those of lost are not
Entries(snap, lost) ==
    [p \in (DOMAIN snap) \cup (DOMAIN lost) |->
        IF p \in DOMAIN lost THEN [err |-> lost[p], ppid |-> 0]
        ELSE [err |-> "none", ppid |-> snap[p]]]

\* Process { pid, ppid, ..., children: HashMap::new() }
Process(p, pp) ==
    [pid |-> p, ppid |-> pp, priority |-> PriorityOf(p),
     cpu_usage |-> CpuOf(p), mem_usage |-> MemOf(p), children |-> <<>>]

\* ReadProcesses keeping the entries whose status read failed
ReadProcesses_KeepsStatusErr(entries) ==
    [p \in { q \in DOMAIN entries : entries[q].err \in {"none", "status"} } |->
        Process(p, entries[p].ppid)]

\* lines 92-121: an entry is inserted when it is Ok, its stat is Ok and its
\* status is Ok; any other entry is passed over
ReadProcesses(entries) ==
    [p \in { q \in DOMAIN entries : entries[q].err = "none" } |->
        Process(p, entries[p].ppid)]

RECURSIVE Ascending(_)
Ascending(S) ==
    IF S = {} THEN <<>>
    ELSE LET m == CHOOSE x \in S : \A y \in S : x <= y
         IN <<m>> \o Ascending(S \ {m})

Reverse(s) == [i \in 1..Len(s) |-> s[Len(s) + 1 - i]]

\* the order in which a HashMap with the keys S is iterated: unspecified;
\* the model takes the ascending and the descending order
IterOrders(S) == {Ascending(S), Reverse(Ascending(S))}

MapInsert(m, k, v) == (k :> v) @@ m
MapRemove(m, k) == [x \in (DOMAIN m) \ {k} |-> m[x]]

----------------------------------------------------------------------------
(* Tree building, main.rs:123-134 *)

\* lines 123-126: children_map.entry(process.ppid).or_default().push(process.clone()),
\* for the processes from the k-th on in iteration order; cm is the map so far
RECURSIVE ChildrenMap(_, _, _, _)
ChildrenMap(cm, pm, iter, k) ==
    IF k > Len(iter) THEN cm
    ELSE LET proc == pm[iter[k]]
             old  == IF proc.ppid \in DOMAIN cm THEN cm[proc.ppid] ELSE <<>>
         IN ChildrenMap(MapInsert(cm, proc.ppid, Append(old, proc)), pm, iter, k + 1)

\* lines 130-132: for child in children { process.children.insert(child.pid, child) }
RECURSIVE InsertChildren(_, _, _)
InsertChildren(children, vec, k) ==
    IF k = 0 THEN children
    ELSE MapInsert(InsertChildren(children, vec, k - 1), vec[k].pid, vec[k])

\* lines 128-134: for process in process_map.values_mut(), from the k-th
\* process on; children_map.remove(&process.pid) consumes the entry
RECURSIVE AttachChildren(_, _, _, _)
AttachChildren(pm, cm, iter, k) ==
    IF k > Len(iter) THEN pm
    ELSE LET pid == iter[k]
         IN IF pid \in DOMAIN cm
            THEN AttachChildren(
                     MapInsert(pm, pid,
                         [pm[pid] EXCEPT !.children =
                             InsertChildren(@, cm[pid], Len(cm[pid]))]),
                     MapRemove(cm, pid), iter, k + 1)
            ELSE AttachChildren(pm, cm, iter, k + 1)

\* BuildTree with the first loop starting one process late
BuildTree_SkipsFirst(pm, iter) == AttachChildren(pm, ChildrenMap(<<>>, pm, iter, 2), iter, 1)

BuildTree(pm, iter) == AttachChildren(pm, ChildrenMap(<<>>, pm, iter, 1), iter, 1)

----------------------------------------------------------------------------
(* Sorting, main.rs:137-153 *)

\* CmpLess with the priorities compared the other way round
CmpLess_PriorityAscending(a, b, crit) ==
    CASE crit = "CPU"    -> b.cpu_usage < a.cpu_usage
      [] crit = "Memory" -> b.mem_usage < a.mem_usage
      [] crit = "PID"    -> a.pid < b.pid
      [] crit = "PR"     -> a.priority < b.priority

\* the closure given to sort_by returns Ordering::Less
CmpLess(a, b, crit) ==
    CASE crit = "CPU"    -> b.cpu_usage < a.cpu_usage
      [] crit = "Memory" -> b.mem_usage < a.mem_usage
      [] crit = "PID"    -> a.pid < b.pid
      [] crit = "PR"     -> b.priority < a.priority

\* sort_by is stable: x goes behind every element it is not less than, and
\* in a sorted s these are the first ones
InsertSorted(s, x, pm, crit) ==
    LET pos == Cardinality({ i \in 1..Len(s) : ~CmpLess(pm[x], pm[s[i]], crit) })
    IN SubSeq(s, 1, pos) \o <<x>> \o SubSeq(s, pos + 1, Len(s))

\* the elements of s behind the sorted ones, inserted one after the other
RECURSIVE SortFrom(_, _, _, _)
SortFrom(sorted, s, pm, crit) ==
    IF Len(sorted) >= Len(s) THEN sorted
    ELSE SortFrom(InsertSorted(sorted, s[Len(sorted) + 1], pm, crit), s, pm, crit)

\* lines 137-153: collect the values, sort them only in the Processes view
SortProcesses(iter, pm, view, crit) ==
    IF view = "Processes" THEN SortFrom(<<>>, iter, pm, crit) ELSE iter

----------------------------------------------------------------------------
(* Rendering, main.rs:155-194 *)

NoDisplay ==
    [kind |-> "none", rows |-> <<>>, highlighted |-> {}, title |-> None,
     found |-> FALSE, parents |-> <<>>, children |-> <<>>, diverges |-> FALSE]

\* draw_process_list: skip(scroll_offset).take(20), the row with
\* scroll_offset + i == selected_index is highlighted
draw_process_list(procs, scroll, sel) ==
    LET rows == SubSeq(procs, scroll + 1, Min(scroll + VisibleRows, Len(procs)))
    IN [NoDisplay EXCEPT
          !.kind = "list",
          !.rows = rows,
          !.highlighted = { rows[i + 1] : i \in { j \in 0..(Len(rows) - 1) : scroll + j = sel } }]

\* the `while let Some(ppid) = current_pid` loop of draw_process_tree, lines
\* 349-364; `listed` are the parents pushed to content so far. The loop has
\* no exit but a ppid missing from the map: once it has listed as many
\* parents as there are processes and finds one more, it is on a cycle of
\* ppids and never ends.
RECURSIVE ParentsWalk(_, _, _)
ParentsWalk(pm, ppid, listed) ==
    IF ppid \notin DOMAIN pm THEN [parents |-> listed, diverges |-> FALSE]
    ELSE IF Len(listed) >= Cardinality(DOMAIN pm) THEN [parents |-> listed, diverges |-> TRUE]
    ELSE ParentsWalk(pm, pm[ppid].ppid, Append(listed, ppid))

\* append_children_recursive, lines 380-390: one line <<level, pid>> per
\* child, followed by the lines of its own children map one level deeper
RECURSIVE append_children_recursive(_, _)
RECURSIVE AppendEach(_, _, _, _)
AppendEach(children, keys, k, level) ==
    IF k = 0 THEN <<>>
    ELSE AppendEach(children, keys, k - 1, level)
         \o <<<<level, children[keys[k]].pid>>>>
         \o append_children_recursive(children[keys[k]].children, level + 1)
append_children_recursive(children, level) ==
    LET keys == Ascending(DOMAIN children)
    IN AppendEach(children, keys, Len(keys), level)

\* draw_process_tree, lines 336-377
draw_process_tree(pid, pm) ==
    IF pid \in DOMAIN pm
    THEN LET walk == ParentsWalk(pm, pm[pid].ppid, <<>>)
         IN [NoDisplay EXCEPT
               !.kind = "tree", !.title = Some(pid), !.found = TRUE,
               !.parents = walk.parents, !.diverges = walk.diverges,
               !.children = append_children_recursive(pm[pid].children, 0)]
    ELSE [NoDisplay EXCEPT !.kind = "tree", !.title = Some(pid)]

\* the match on view_state inside terminal.draw, lines 170-191
Render(view, pm, procs, scroll, sel, focus) ==
    CASE view = "Processes"     -> draw_process_list(procs, scroll, sel)
      [] view = "CrashTracking" -> [NoDisplay EXCEPT !.kind = "crash"]
      [] view = "ProcessTree"   ->
           IF focus # None THEN draw_process_tree(focus[1], pm)
           ELSE [NoDisplay EXCEPT !.kind = "empty_tree"]

----------------------------------------------------------------------------
(* The metric functions, main.rs:508-529. An f64 is the exact fraction     *)
(* num/den with den > 0: the rounding of the floating point operations is  *)
(* left out. A u64 is a number below 2^WordBits.                           *)

U64 == 2 ^ WordBits

RECURSIVE Gcd(_, _)
Gcd(a, b) == IF b = 0 THEN a ELSE Gcd(b, a % b)

\* the f64 n/d in lowest terms; d = 0 stands for a value that is not finite
F64(n, d) ==
    IF d = 0 THEN [num |-> n, den |-> 0]
    ELSE LET g == Gcd(IF n < 0 THEN 0 - n ELSE n, d)
         IN [num |-> n \div g, den |-> d \div g]

\* `x as f64`
AsF64(n) == F64(n, 1)

\* a - b, a * b, a / b, a > b, a = b on f64
FSub(a, b) == F64(a.num * b.den - b.num * a.den, a.den * b.den)
FMul(a, b) == F64(a.num * b.num, a.den * b.den)
FDiv(a, b) ==
    IF b.num >= 0 THEN F64(a.num * b.den, a.den * b.num)
    ELSE F64(0 - a.num * b.den, a.den * (0 - b.num))
FGreater(a, b) == a.num * b.den > b.num * a.den
FEqual(a, b) == a.num * b.den = b.num * a.den

\* the Stat of a process: ticks in user and system mode, of the process and of
\* its waited-for children, its start in ticks after boot, its resident pages
Stats ==
    [utime : (0..MaxTicks) \cup {50}, stime : 0..1, cutime : 0..1, cstime : 0..1,
     starttime : {0, 1, 150, 200}, rss : {0, 1, 256}]

\* what the system gives: SystemTime::now().duration_since(UNIX_EPOCH),
\* kernel_stats.btime, procfs::ticks_per_second(), sysconf(_SC_PAGESIZE),
\* mem_info.mem_total in KB
Systems ==
    [now : [ok : {TRUE}, secs : 0..MaxSecs] \cup {[ok |-> FALSE, secs |-> 0]},
     btime : 0..1,
     ticks_per_second : {[ok |-> TRUE, value |-> 100], [ok |-> TRUE, value |-> 2],
                         [ok |-> FALSE, value |-> 0]},
     page_size : {4096, 16384},
     mem_total : {102400, 1024000}]

\* lines 508-513. duration.as_secs() - btime is a u64 subtraction: with the
\* clock before the boot time it overflows, which panics where overflow
\* checks are compiled in and wraps where they are not
uptime(now, btime) ==
    IF ~now.ok THEN [overflow |-> FALSE, secs |-> 0]
    ELSE IF now.secs >= btime THEN [overflow |-> FALSE, secs |-> now.secs - btime]
    ELSE [overflow |-> TRUE, secs |-> U64 + now.secs - btime]

\* ticks_per_second().unwrap_or(100) as f64
Hertz(env) ==
    AsF64(IF env.ticks_per_second.ok THEN env.ticks_per_second.value ELSE DefaultHertz)

\* calculate_cpu_usage with elapsed_time >= 0.0 for the test of line 519
calculate_cpu_usage_ZeroElapsed(st, up, env) ==
    LET total_time == st.utime + st.stime + (st.cutime + st.cstime)
        hertz == Hertz(env)
        elapsed_time == FSub(AsF64(up), FDiv(AsF64(st.starttime), hertz))
    IN IF ~FGreater(AsF64(0), elapsed_time)
       THEN FMul(FDiv(FDiv(AsF64(total_time), hertz), elapsed_time), AsF64(100))
       ELSE AsF64(0)

\* lines 515-524
calculate_cpu_usage(st, up, env) ==
    LET total_time == st.utime + st.stime + (st.cutime + st.cstime)
        hertz == Hertz(env)
        elapsed_time == FSub(AsF64(up), FDiv(AsF64(st.starttime), hertz))
    IN IF FGreater(elapsed_time, AsF64(0))
       THEN FMul(FDiv(FDiv(AsF64(total_time), hertz), elapsed_time), AsF64(100))
       ELSE AsF64(0)

\* calculate_memory_usage as a percentage of the total memory
calculate_memory_usage_Percent(st, env) ==
    LET page_size_kb == FDiv(AsF64(env.page_size), AsF64(Kilo))
    IN FMul(FDiv(FMul(AsF64(st.rss), page_size_kb), AsF64(env.mem_total)), AsF64(100))

\* lines 526-529
calculate_memory_usage(st, env) ==
    LET page_size_kb == FDiv(AsF64(env.page_size), AsF64(Kilo))
    IN FDiv(FMul(AsF64(st.rss), page_size_kb), AsF64(Kilo))

----------------------------------------------------------------------------
(* The crash feed, main.rs:312-324. A line is the sequence of its characters. *)

Segfault == <<"s", "e", "g", "f", "a", "u", "l", "t">>
Oom == <<"o", "o", "m">>

LineNormal == <<"a", " ", "n", "o", "r", "m", "a", "l", " ", "l", "i", "n", "e">>
LineSegfault == <<"k", "e", "r", "n", "e", "l", ":", " ", "s", "e", "g", "f", "a", "u", "l", "t", " ", "a", "t", " ", "0", "x", "0">>
LineOomKiller == <<"o", "o", "m", "-", "k", "i", "l", "l", "e", "r", " ", "i", "n", "v", "o", "k", "e", "d">>
LineRoom == <<"r", "o", "o", "m">>
LineSegFault == <<"s", "e", "g", " ", "f", "a", "u", "l", "t">>

LogLines == {LineNormal, LineSegfault, LineOomKiller, LineRoom, LineSegFault}

\* str::contains(pat)
Contains(line, pat) ==
    \E i \in 0..(Len(line) - Len(pat)) : SubSeq(line, i + 1, i + Len(pat)) = pat

\* the closure of line 321
IsCrashLine(line) == Contains(line, Segfault) \/ Contains(line, Oom)

\* lines 320-323: logs.lines().filter(..).map(..).collect(), from the k-th
\* line on; feed are the lines collected so far
RECURSIVE CollectCrashLines(_, _, _)
CollectCrashLines(feed, lines, k) ==
    IF k > Len(lines) THEN feed
    ELSE CollectCrashLines(IF IsCrashLine(lines[k]) THEN Append(feed, lines[k]) ELSE feed,
                           lines, k + 1)

\* get_crash_logs leaving out a line that is in the feed already
RECURSIVE CollectOnce(_, _, _)
CollectOnce(feed, lines, k) ==
    IF k > Len(lines) THEN feed
    ELSE CollectOnce(IF IsCrashLine(lines[k]) /\ \A j \in 1..Len(feed) : feed[j] # lines[k]
                     THEN Append(feed, lines[k]) ELSE feed,
                     lines, k + 1)

get_crash_logs_Dedup(stdout) == CollectOnce(<<>>, stdout, 1)

\* get_crash_logs for an Output whose stdout has the given lines
get_crash_logs(stdout) == CollectCrashLines(<<>>, stdout, 1)

\* Command::output() is Err when dmesg cannot be started
DmesgErr == [ok |-> FALSE, stdout |-> <<>>]
DmesgOk(lines) == [ok |-> TRUE, stdout |-> lines]

\* the log the passes of the loop read
LoopLog == <<LineNormal, LineSegfault, LineOomKiller>>

----------------------------------------------------------------------------
(* The loop *)

\* lines 58-67, at the top of the first pass
InitLoop ==
    /\ overflow_checks \in BOOLEAN
    /\ pc = "scan"
    /\ scroll_offset = 0
    /\ selected_index = 0
    /\ sort_criteria = "CPU"
    /\ view_state = "Processes"
    /\ tree_view_pid = None
    /\ view_i = 0
    /\ process_map = <<>>
    /\ processes = <<>>
    /\ display = NoDisplay
    /\ signal = None
    /\ failed = None
    /\ proc_reads = <<>>
    /\ crash_history = None

Init ==
    /\ InitLoop
    /\ dmesg = None
    /\ stat = None
    /\ sys = None
    /\ metrics = None

\* the calls of lines 70-194 that end main when they fail: four by `?`,
\* get_crash_logs by the expect of line 317
ScanCalls ==
    {"LoadAverage::new", "Meminfo::new", "get_crash_logs", "all_processes", "terminal.draw"}

\* main is over before a draw is shown: there is no process list, no
\* display and no crash feed
Ended ==
    /\ process_map' = <<>>
    /\ processes' = <<>>
    /\ display' = NoDisplay
    /\ proc_reads' = <<>>
    /\ crash_history' = None

\* lines 70-194: one scan of the processes, the tree, the sort and the draw.
\* entries, read, pm, procs and shown are the values of lines 93-96, 92-121,
\* 123-134, 137-153 and 155-194. (uptime of line 70 is in Measure.)
Scan(Snapshots, Lost) ==
    /\ pc = "scan"
    /\ signal' = None
    /\ UNCHANGED <<viewvars, overflow_checks, metricvars>>
    /\ \/ \E call \in ScanCalls :
            /\ failed' = Some(call)
            /\ pc' = IF call = "get_crash_logs" THEN "panic" ELSE "error"
            /\ dmesg' = IF call = "get_crash_logs" THEN Some(DmesgErr) ELSE None
            /\ Ended
       \/ /\ failed' = None
          /\ dmesg' = Some(DmesgOk(LoopLog))
          /\ crash_history' = Some(get_crash_logs(LoopLog))
          /\ \E snap \in Snapshots :
             \E lost \in { l \in Lost : (DOMAIN l) \cap (DOMAIN snap) = {} } :
             \E entries \in {Entries(snap, lost)} :
             \E read \in {ReadProcesses(entries)} :
             \E iter \in IterOrders(DOMAIN read) :
             \E pm \in {BuildTree(read, iter)} :
             \E procs \in {SortProcesses(iter, pm, view_state, sort_criteria)} :
             \E shown \in {Render(view_state, pm, procs, scroll_offset, selected_index,
                                  tree_view_pid)} :
                /\ proc_reads' = entries
                /\ process_map' = pm
                /\ processes' = procs
                /\ IF shown.diverges
                   THEN pc' = "hung" /\ display' = NoDisplay
                   ELSE pc' = "poll" /\ display' = shown

\* the end of the loop body: the locals of the pass are dropped
EndPass ==
    /\ UNCHANGED <<overflow_checks, metricvars>>
    /\ process_map' = <<>>
    /\ processes' = <<>>
    /\ display' = NoDisplay
    /\ proc_reads' = <<>>
    /\ dmesg' = None
    /\ crash_history' = None

\* lines 199-202: reset_terminal and break, or Err from reset_terminal
KeyQ ==
    /\ pc = "poll"
    /\ \/ pc' = "quit" /\ failed' = None
       \/ pc' = "error" /\ failed' = Some("reset_terminal")
    /\ signal' = None
    /\ EndPass
    /\ UNCHANGED viewvars

\* RequestSignal leaving the loop when kill() fails
RequestSignal_StopsOnFailure(sig) ==
    /\ pc = "poll"
    /\ IF view_state = "Processes" /\ selected_index < Len(processes)
       THEN \E ok \in BOOLEAN :
              /\ signal' = Some([pid |-> processes[selected_index + 1], sig |-> sig, ok |-> ok])
              /\ pc' = IF ok THEN "scan" ELSE "quit"
       ELSE signal' = None /\ pc' = "scan"
    /\ EndPass
    /\ failed' = None
    /\ UNCHANGED viewvars

\* RequestSignal taking the first row instead of the selected one
RequestSignal_FirstRow(sig) ==
    /\ pc = "poll"
    /\ IF view_state = "Processes" /\ selected_index < Len(processes)
       THEN \E ok \in BOOLEAN :
              signal' = Some([pid |-> processes[1], sig |-> sig, ok |-> ok])
       ELSE signal' = None
    /\ pc' = "scan"
    /\ EndPass
    /\ failed' = None
    /\ UNCHANGED viewvars

\* RequestSignal taking the last row when the selected index is behind it
RequestSignal_LastRow(sig) ==
    /\ pc = "poll"
    /\ IF view_state = "Processes" /\ Len(processes) > 0
       THEN \E ok \in BOOLEAN :
              signal' = Some([pid |-> processes[Min(selected_index + 1, Len(processes))],
                              sig |-> sig, ok |-> ok])
       ELSE signal' = None
    /\ pc' = "scan"
    /\ EndPass
    /\ failed' = None
    /\ UNCHANGED viewvars

\* the arms 'k', 's' and 'w', lines 203-216 and 226-253: in the Processes
\* view, kill(proc.pid, sig) for processes.get(selected_index); the call
\* returns 0 or fails, and a failure is only printed
RequestSignal(sig) ==
    /\ pc = "poll"
    /\ IF view_state = "Processes" /\ selected_index < Len(processes)
       THEN \E ok \in BOOLEAN :
              signal' = Some([pid |-> processes[selected_index + 1], sig |-> sig, ok |-> ok])
       ELSE signal' = None
    /\ pc' = "scan"
    /\ EndPass
    /\ failed' = None
    /\ UNCHANGED viewvars

KeyK == RequestSignal("SIGKILL")

KeyS == RequestSignal("SIGSTOP")

KeyW == RequestSignal("SIGCONT")

\* KeyT without the test of the view
KeyT_AnyView ==
    /\ pc = "poll"
    /\ IF selected_index < Len(processes)
       THEN /\ tree_view_pid' = Some(processes[selected_index + 1])
            /\ view_state' = "ProcessTree"
       ELSE UNCHANGED <<tree_view_pid, view_state>>
    /\ pc' = "scan"
    /\ signal' = None
    /\ EndPass
    /\ failed' = None
    /\ UNCHANGED <<scroll_offset, selected_index, sort_criteria, view_i>>

\* lines 217-224
KeyT ==
    /\ pc = "poll"
    /\ IF view_state = "Processes" /\ selected_index < Len(processes)
       THEN /\ tree_view_pid' = Some(processes[selected_index + 1])
            /\ view_state' = "ProcessTree"
       ELSE UNCHANGED <<tree_view_pid, view_state>>
    /\ pc' = "scan"
    /\ signal' = None
    /\ EndPass
    /\ failed' = None
    /\ UNCHANGED <<scroll_offset, selected_index, sort_criteria, view_i>>

\* line 255: view_i = (view_i + 2) % 3
OnLeft(i) == (i + 2) % NumViews

\* line 259: view_i = (view_i + 1) % 3
OnRight(i) == (i + 1) % NumViews

\* KeyLeft clearing the tree focus
KeyLeft_ClearsFocus ==
    /\ pc = "poll"
    /\ view_i' = (view_i + 2) % NumViews
    /\ view_state' = view_states[view_i' + 1]
    /\ tree_view_pid' = None
    /\ pc' = "scan"
    /\ signal' = None
    /\ EndPass
    /\ failed' = None
    /\ UNCHANGED <<scroll_offset, selected_index, sort_criteria>>

\* lines 254-257
KeyLeft ==
    /\ pc = "poll"
    /\ view_i' = OnLeft(view_i)
    /\ view_state' = view_states[view_i' + 1]
    /\ pc' = "scan"
    /\ signal' = None
    /\ EndPass
    /\ failed' = None
    /\ UNCHANGED <<scroll_offset, selected_index, sort_criteria, tree_view_pid>>

\* KeyRight going back to the first row
KeyRight_ResetsSelection ==
    /\ pc = "poll"
    /\ view_i' = OnRight(view_i)
    /\ view_state' = view_states[view_i' + 1]
    /\ selected_index' = 0
    /\ scroll_offset' = 0
    /\ pc' = "scan"
    /\ signal' = None
    /\ EndPass
    /\ failed' = None
    /\ UNCHANGED <<sort_criteria, tree_view_pid>>

\* lines 258-261
KeyRight ==
    /\ pc = "poll"
    /\ view_i' = OnRight(view_i)
    /\ view_state' = view_states[view_i' + 1]
    /\ pc' = "scan"
    /\ signal' = None
    /\ EndPass
    /\ failed' = None
    /\ UNCHANGED <<scroll_offset, selected_index, sort_criteria, tree_view_pid>>

\* MoveDown with `>` for `>=`
MoveDown_LateScroll(sel, scroll) ==
    [sel |-> sel + 1,
     scroll |-> IF sel + 1 > scroll + VisibleRows THEN scroll + 1 ELSE scroll]

\* lines 265-268: selected_index += 1, and the window follows
MoveDown(sel, scroll) ==
    [sel |-> sel + 1,
     scroll |-> IF sel + 1 >= scroll + VisibleRows THEN scroll + 1 ELSE scroll]

\* lines 275-278: selected_index -= 1, and the window follows
MoveUp(sel, scroll) ==
    [sel |-> sel - 1,
     scroll |-> IF sel - 1 < scroll THEN scroll - 1 ELSE scroll]

\* lines 262-271. `processes.len() - 1` is a usize subtraction: with no
\* process it overflows, which panics where overflow checks are compiled in
\* and wraps to usize::MAX where they are not, so that every index is below
\* it. The wrapped branch would count without end; it stops above MaxPid.
KeyDown ==
    /\ pc = "poll"
    /\ signal' = None
    /\ EndPass
    /\ UNCHANGED <<sort_criteria, view_state, tree_view_pid, view_i>>
    /\ IF view_state # "Processes"
       THEN pc' = "scan" /\ UNCHANGED <<selected_index, scroll_offset>>
       ELSE IF Len(processes) = 0
       THEN \/ /\ overflow_checks
               /\ pc' = "panic"
               /\ UNCHANGED <<selected_index, scroll_offset>>
            \/ /\ ~overflow_checks
               /\ selected_index <= MaxPid
               /\ pc' = "scan"
               /\ selected_index' = MoveDown(selected_index, scroll_offset).sel
               /\ scroll_offset' = MoveDown(selected_index, scroll_offset).scroll
       ELSE /\ pc' = "scan"
            /\ IF selected_index < Len(processes) - 1
               THEN /\ selected_index' = MoveDown(selected_index, scroll_offset).sel
                    /\ scroll_offset' = MoveDown(selected_index, scroll_offset).scroll
               ELSE UNCHANGED <<selected_index, scroll_offset>>
    /\ failed' = IF pc' = "panic" THEN Some("overflow") ELSE None

\* lines 272-281
KeyUp ==
    /\ pc = "poll"
    /\ pc' = "scan"
    /\ signal' = None
    /\ EndPass
    /\ failed' = None
    /\ UNCHANGED <<sort_criteria, view_state, tree_view_pid, view_i>>
    /\ IF view_state = "Processes" /\ selected_index > 0
       THEN /\ selected_index' = MoveUp(selected_index, scroll_offset).sel
            /\ scroll_offset' = MoveUp(selected_index, scroll_offset).scroll
       ELSE UNCHANGED <<selected_index, scroll_offset>>

\* SetSort without the test of the view
SetSort_AnyView(crit) ==
    /\ pc = "poll"
    /\ pc' = "scan"
    /\ sort_criteria' = crit
    /\ signal' = None
    /\ EndPass
    /\ failed' = None
    /\ UNCHANGED <<scroll_offset, selected_index, view_state, tree_view_pid, view_i>>

\* the arms 'c', 'm', 'p' and 'r', lines 282-301
SetSort(crit) ==
    /\ pc = "poll"
    /\ pc' = "scan"
    /\ sort_criteria' = IF view_state = "Processes" THEN crit ELSE sort_criteria
    /\ signal' = None
    /\ EndPass
    /\ failed' = None
    /\ UNCHANGED <<scroll_offset, selected_index, view_state, tree_view_pid, view_i>>

KeyC == SetSort("CPU")

KeyM == SetSort("Memory")

KeyP == SetSort("PID")

KeyR == SetSort("PR")

\* line 196 with no event within the second, line 197 with an event that is
\* no key, line 302 with any other key
NoKey ==
    /\ pc = "poll"
    /\ pc' = "scan"
    /\ signal' = None
    /\ EndPass
    /\ failed' = None
    /\ UNCHANGED viewvars

\* lines 196-197: event::poll or event::read is Err
EventFails ==
    /\ pc = "poll"
    /\ pc' = "error"
    /\ failed' = Some("event")
    /\ signal' = None
    /\ EndPass
    /\ UNCHANGED viewvars

KeyAction ==
    \/ KeyQ \/ KeyK \/ KeyT \/ KeyS \/ KeyW
    \/ KeyLeft \/ KeyRight \/ KeyDown \/ KeyUp
    \/ KeyC \/ KeyM \/ KeyP \/ KeyR
    \/ NoKey

ScanSmall == Scan(SmallSnapshots, NoneLost)

ScanWide == Scan(WideSnapshots, NoneLost)

ScanLost == Scan(ChainSnapshots, LostReads)

Next == ScanSmall \/ KeyAction \/ EventFails

NextWide == ScanWide \/ KeyAction \/ EventFails

NextLost == ScanLost \/ KeyAction \/ EventFails

\* the loop over snapshots of at most MaxPid processes
Spec == Init /\ [][Next]_vars

\* the loop over snapshots of none, one or MaxProcs processes
SpecWide == Init /\ [][NextWide]_vars

\* the loop over chains of at most MaxPid entries, read or not
SpecLost == Init /\ [][NextLost]_vars

----------------------------------------------------------------------------
(* The functions of a pass, each alone *)

InitMetrics ==
    /\ InitLoop
    /\ dmesg = None
    /\ stat \in { Some(st) : st \in Stats }
    /\ sys \in { Some(env) : env \in Systems }
    /\ metrics = None

\* line 70 and, for one process, lines 97-98
Measure ==
    /\ pc = "scan"
    /\ stat # None
    /\ metrics = None
    /\ UNCHANGED <<overflow_checks, viewvars, passvars, stat, sys>>
    /\ \E up \in {uptime(sys[1].now, sys[1].btime)} :
          IF up.overflow /\ overflow_checks
          THEN /\ pc' = "panic"
               /\ failed' = Some("overflow")
               /\ metrics' = None
          ELSE /\ pc' = "scan"
               /\ failed' = None
               /\ metrics' = Some([uptime |-> up.secs,
                                    cpu_usage |-> calculate_cpu_usage(stat[1], up.secs, sys[1]),
                                    mem_usage |-> calculate_memory_usage(stat[1], sys[1])])

\* the metric functions over the Stats and the Systems
SpecMetrics == InitMetrics /\ [][Measure]_vars

\* the outputs of `dmesg --ctime`: none, as dmesg could not be started, or
\* up to MaxLines lines
RECURSIVE Logs(_)
Logs(n) ==
    IF n = 0 THEN {<<>>}
    ELSE Logs(n - 1) \cup { Append(log, line) : log \in Logs(n - 1), line \in LogLines }

DmesgOutputs == {DmesgErr} \cup { DmesgOk(log) : log \in Logs(MaxLines) }

InitCrash ==
    /\ InitLoop
    /\ dmesg \in { Some(out) : out \in DmesgOutputs }
    /\ stat = None
    /\ sys = None
    /\ metrics = None

\* line 79: get_crash_logs() with the expect of line 317
GetCrashLogs ==
    /\ pc = "scan"
    /\ dmesg # None
    /\ crash_history = None
    /\ UNCHANGED <<overflow_checks, viewvars, metricvars, dmesg,
                   process_map, processes, display, signal, proc_reads>>
    /\ IF dmesg[1].ok
       THEN /\ crash_history' = Some(get_crash_logs(dmesg[1].stdout))
            /\ pc' = "scan"
            /\ failed' = None
       ELSE /\ crash_history' = None
            /\ pc' = "panic"
            /\ failed' = Some("get_crash_logs")

\* get_crash_logs over the DmesgOutputs
SpecCrash == InitCrash /\ [][GetCrashLogs]_vars

----------------------------------------------------------------------------
(* Properties *)

Range(f) == { f[x] : x \in DOMAIN f }

ViewStateFields == <<view_state, sort_criteria, selected_index, scroll_offset, tree_view_pid>>

\* C1: an Up or Down key in the Processes view never fails, moves nothing
\* when there is no process, and otherwise leaves a selected index that is
\* within [0, n-1] there (n the number of processes of the pass; with n = 1
\* the index 0 stays 0).
C1_UpDownKeepSelectionInRange ==
    [][ ((KeyUp \/ KeyDown) /\ view_state = "Processes")
        => /\ pc' # "panic"
           /\ IF Len(processes) = 0
              THEN selected_index' = selected_index
              ELSE (selected_index < Len(processes) => selected_index' < Len(processes)) ]_vars

\* C2: wherever a key can be pressed, Right three times leads back to the
\* view mode shown, and so does Left followed by Right.
C2_ViewCycleReturns ==
    pc = "poll" =>
        /\ view_states[OnRight(OnRight(OnRight(view_i))) + 1] = view_state
        /\ view_states[OnRight(OnLeft(view_i)) + 1] = view_state

\* C3: in every pass the selected index kept from the earlier passes is
\* within [0, n-1] for the n processes of this pass (0 when there is none).
\* Stated for the builds with overflow checks, where the index never moves
\* while there is no process.
C3_SelectionWithinCollection ==
    (overflow_checks /\ pc = "poll") =>
        \/ selected_index < Len(processes)
        \/ Len(processes) = 0 /\ selected_index = 0

\* C4: the scroll offset is never negative and the selected row is one of
\* the VisibleRows rows from the scroll offset on.
C4_SelectionInsideWindow ==
    /\ scroll_offset >= 0
    /\ scroll_offset <= selected_index
    /\ selected_index < scroll_offset + VisibleRows

\* the window went down by one row and the selection came back up to its
\* first row, which the draw highlighted
C4_Witness ==
    /\ pc = "poll"
    /\ scroll_offset = 1
    /\ selected_index = 1
    /\ display.kind = "list"
    /\ Len(processes) > VisibleRows
    /\ display.highlighted = {processes[2]}

\* C5 as claimed: the tree focus is set exactly when the view mode is
\* ProcessTree.
C5_FocusIffTreeView ==
    (tree_view_pid # None) <=> (view_state = "ProcessTree")

\* C5 as amended: only the focus key changes the tree focus, it sets it
\* whenever it switches the view to ProcessTree, and nothing clears it:
\* Left and Right move the view mode and keep the focus as it is, set or not.
C5_FocusSetOnlyByFocusKey ==
    [][ /\ (tree_view_pid' # tree_view_pid
              => KeyT /\ view_state' = "ProcessTree" /\ tree_view_pid' # None)
        /\ (KeyT /\ view_state' # view_state
              => view_state' = "ProcessTree" /\ tree_view_pid' # None)
        /\ (tree_view_pid # None => tree_view_pid' # None) ]_vars

\* a focus taken earlier is still there in another view
C5_Witness ==
    /\ pc = "poll"
    /\ view_state = "CrashTracking"
    /\ tree_view_pid # None

\* C6: a terminate, suspend or resume key leaves the view mode, the sort
\* criterion, the selected index, the scroll offset and the tree focus as
\* they are, and the loop goes on to its next pass, whether kill() returned
\* 0 or not.
C6_SignalKeysKeepViewState ==
    [][ (KeyK \/ KeyS \/ KeyW)
        => /\ UNCHANGED ViewStateFields
           /\ pc' = "scan" ]_vars

\* a request that failed, with the loop at the top of its next pass
C6_Witness ==
    /\ pc = "scan"
    /\ signal # None
    /\ ~signal[1].ok

SignalOf(p, sig) == signal # None /\ signal[1].pid = p /\ signal[1].sig = sig

\* C7: a signal is requested only by the terminate, suspend and resume keys
\* and only in the Processes view; it is SIGKILL, SIGSTOP or SIGCONT for the
\* key, and it goes to the pid at the selected index of the sorted list of
\* the pass, which is the row the draw of the pass highlighted. In the other
\* views these keys request nothing.
C7_SignalGoesToSelectedRow ==
    [][ /\ (signal' # None
              => /\ KeyK \/ KeyS \/ KeyW
                 /\ view_state = "Processes"
                 /\ selected_index < Len(processes)
                 /\ signal'[1].pid = processes[selected_index + 1]
                 /\ display.kind = "list"
                 /\ display.rows[selected_index - scroll_offset + 1] = signal'[1].pid
                 /\ display.highlighted = {signal'[1].pid})
        /\ (KeyK /\ signal' # None => signal'[1].sig = "SIGKILL")
        /\ (KeyS /\ signal' # None => signal'[1].sig = "SIGSTOP")
        /\ (KeyW /\ signal' # None => signal'[1].sig = "SIGCONT")
        /\ ((KeyK \/ KeyS \/ KeyW) /\ view_state = "Processes"
              /\ selected_index < Len(processes)
              => signal' # None)
        /\ ((KeyK \/ KeyS \/ KeyW) /\ view_state # "Processes" => signal' = None) ]_vars

\* SIGSTOP went to the second row of a list whose order is not the pid order
C7_Witness ==
    /\ pc = "scan"
    /\ signal # None
    /\ signal[1].sig = "SIGSTOP"
    /\ selected_index = 1
    /\ signal[1].pid # 2

\* C8: in the Processes view the focus key sets the tree focus to the pid of
\* the selected row (the highlighted one) and the view mode to ProcessTree;
\* in the other views, and with no selected row, it changes nothing.
C8_FocusKey ==
    [][ KeyT
        => IF view_state = "Processes" /\ selected_index < Len(processes)
           THEN /\ tree_view_pid' = Some(processes[selected_index + 1])
                /\ display.highlighted = {processes[selected_index + 1]}
                /\ view_state' = "ProcessTree"
                /\ UNCHANGED <<sort_criteria, selected_index, scroll_offset>>
           ELSE UNCHANGED viewvars ]_vars

\* the focus key took the pid of a row below the first one
C8_Witness ==
    /\ pc = "scan"
    /\ view_state = "ProcessTree"
    /\ view_i = 0
    /\ selected_index > 0
    /\ tree_view_pid # None

\* C9: after the tree is built, C is in the children of P exactly when the
\* ppid of C is the pid of P, under its own pid; so a process whose ppid is
\* not in the snapshot is in no children map, and none is in two.
C9_ChildSets ==
    pc \in {"poll", "hung"} =>
        /\ \A P \in DOMAIN process_map :
             /\ DOMAIN process_map[P].children
                  = { C \in DOMAIN process_map : process_map[C].ppid = P }
             /\ \A C \in DOMAIN process_map[P].children :
                  /\ process_map[P].children[C].pid = C
                  /\ process_map[P].children[C].ppid = P
        /\ \A C \in DOMAIN process_map :
             Cardinality({ P \in DOMAIN process_map :
                             C \in DOMAIN process_map[P].children }) <= 1

\* one process has its parent outside the snapshot, another one has a child
C9_Witness ==
    /\ pc = "poll"
    /\ \E C \in DOMAIN process_map :
         process_map[C].ppid \notin (DOMAIN process_map) \cup {0}
    /\ \E P \in DOMAIN process_map : process_map[P].children # <<>>

\* the processes below p in the snapshot: its children, their children, ...
RECURSIVE DescendantsFrom(_, _)
DescendantsFrom(found, pm) ==
    LET more == { C \in DOMAIN pm : pm[C].ppid \in found } \ found
    IN IF more = {} THEN found ELSE DescendantsFrom(found \cup more, pm)

Descendants(p, pm) ==
    LET direct == { C \in DOMAIN pm : pm[C].ppid = p }
    IN IF direct = {} THEN {} ELSE DescendantsFrom(direct, pm)

\* the parent of p, its parent, ... as far as they are in the snapshot
RECURSIVE Ancestors(_, _, _)
Ancestors(p, pm, fuel) ==
    IF fuel = 0 \/ pm[p].ppid \notin DOMAIN pm THEN <<>>
    ELSE <<pm[p].ppid>> \o Ancestors(pm[p].ppid, pm, fuel - 1)

\* C10: the tree drawn for the focused process lists all its descendants in
\* the snapshot, children and deeper, and its chain of ancestors.
C10_TreeShowsAllDescendants ==
    (pc = "poll" /\ display.kind = "tree" /\ display.found) =>
        /\ { line[2] : line \in Range(display.children) }
             = Descendants(display.title[1], process_map)
        /\ display.parents
             = Ancestors(display.title[1], process_map, Cardinality(DOMAIN process_map))

\* C11: in the Processes view the list handed to the draw is a permutation
\* of the processes of the snapshot, every one once, in the order of the
\* active criterion: CPU by descending cpu usage, Memory by descending memory
\* usage, PID by strictly ascending pid, Priority by descending priority;
\* the rows drawn are its part from the scroll offset on. Equal values do
\* not make the sort fail: the pass reaches the poll.
C11_ListSortedByCriterion ==
    (pc = "poll" /\ view_state = "Processes") =>
        /\ Len(processes) = Cardinality(DOMAIN process_map)
        /\ Range(processes) = DOMAIN process_map
        /\ \A i, j \in 1..Len(processes) :
             i < j =>
                LET a == process_map[processes[i]]
                    b == process_map[processes[j]]
                IN CASE sort_criteria = "CPU"    -> a.cpu_usage >= b.cpu_usage
                     [] sort_criteria = "Memory" -> a.mem_usage >= b.mem_usage
                     [] sort_criteria = "PID"    -> a.pid < b.pid
                     [] sort_criteria = "PR"     -> a.priority >= b.priority
        /\ display.kind = "list"
        /\ \A i \in 1..Len(display.rows) : display.rows[i] = processes[scroll_offset + i]

\* three processes sorted by memory, two of them with equal memory usage
C11_Witness ==
    /\ pc = "poll"
    /\ view_state = "Processes"
    /\ sort_criteria = "Memory"
    /\ processes = <<3, 1, 2>>
    /\ process_map[3].mem_usage = process_map[1].mem_usage
    /\ display.rows = <<3, 1, 2>>

\* C12: with elapsed = uptime - starttime/hertz for the uptime given to
\* calculate_cpu_usage, the cpu usage is exactly 0 when elapsed <= 0, and is
\* (total_time/hertz)/elapsed*100, which is not negative, when elapsed > 0;
\* total_time are the ticks of the process and of its waited-for children.
C12_CpuUsage ==
    metrics # None =>
        LET st == stat[1]
            up == metrics[1].uptime
            tickRate == IF sys[1].ticks_per_second.ok THEN sys[1].ticks_per_second.value
                        ELSE DefaultHertz
            cpuTicks == st.utime + st.stime + st.cutime + st.cstime
            cpu == metrics[1].cpu_usage
        IN /\ cpu.den > 0
           /\ IF up * tickRate <= st.starttime
              THEN cpu.num = 0
              ELSE /\ cpu.num * (up * tickRate - st.starttime) = cpuTicks * 100 * cpu.den
                   /\ cpu.num >= 0

\* 50 ticks at 100 ticks per second, started at boot, after one second: 50
C12_Witness ==
    /\ metrics # None
    /\ stat[1].utime = 50 /\ stat[1].stime = 0 /\ stat[1].cutime = 0 /\ stat[1].cstime = 0
    /\ stat[1].starttime = 0
    /\ sys[1].ticks_per_second = [ok |-> TRUE, value |-> 100]
    /\ metrics[1].uptime = 1
    /\ FEqual(metrics[1].cpu_usage, AsF64(50))

\* a process started after the uptime read, with ticks already: 0
C12_WitnessNegative ==
    /\ metrics # None
    /\ stat[1].utime = 50
    /\ stat[1].starttime = 150
    /\ sys[1].ticks_per_second.ok = FALSE
    /\ metrics[1].uptime = 1
    /\ metrics[1].cpu_usage.num = 0

\* C13 as claimed: the memory usage of a process is the percentage
\* rss * pageSizeKB / totalMemoryKB * 100 of the total memory.
C13_MemoryIsPercentOfTotal ==
    metrics # None =>
        metrics[1].mem_usage
            = F64(stat[1].rss * sys[1].page_size * 100, Kilo * sys[1].mem_total)

\* C13 as amended: the memory usage of a process is its resident size in MB,
\* rss * pageSizeKB / 1024 with pageSizeKB = page_size / 1024, whatever the
\* total memory is.
C13_MemoryIsResidentMB ==
    metrics # None =>
        /\ metrics[1].mem_usage = F64(stat[1].rss * sys[1].page_size, Kilo * Kilo)
        /\ metrics[1].mem_usage.num >= 0
        /\ \A env \in Systems :
             env.page_size = sys[1].page_size
                => calculate_memory_usage(stat[1], env) = metrics[1].mem_usage

\* 256 pages of 4 KB with 1024000 KB of memory: 1 MB
C13_Witness ==
    /\ metrics # None
    /\ stat[1].rss = 256
    /\ sys[1].page_size = 4096
    /\ sys[1].mem_total = 1024000
    /\ metrics[1].mem_usage = AsF64(1)

\* C14: the crash feed is exactly the lines of the log that contain
\* "segfault" or "oom", as often as they occur and in the order of the log:
\* its k-th line is the k-th such line of the log. The log "a normal line",
\* "kernel: segfault at 0x0", "oom-killer invoked" gives the last two lines.
C14_FeedIsMarkedSubsequence ==
    crash_history # None =>
        LET lines == dmesg[1].stdout
            feed == crash_history[1]
            marked == { i \in 1..Len(lines) :
                          Contains(lines[i], Segfault) \/ Contains(lines[i], Oom) }
            nth(k) == CHOOSE i \in marked : Cardinality({ j \in marked : j < i }) = k - 1
        IN /\ Len(feed) = Cardinality(marked)
           /\ \A k \in 1..Len(feed) : feed[k] = lines[nth(k)]
           /\ (lines = <<LineNormal, LineSegfault, LineOomKiller>>
                 => feed = <<LineSegfault, LineOomKiller>>)

\* the same line twice in the log, with another line between, is twice in the feed
C14_Witness ==
    /\ crash_history # None
    /\ dmesg[1].stdout = <<LineSegfault, LineNormal, LineSegfault>>
    /\ crash_history[1] = <<LineSegfault, LineSegfault>>

\* C15: when dmesg cannot be started in a pass, the crash feed of the pass
\* is empty and main goes on: it neither panics nor returns.
C15_LogFailureGivesEmptyFeed ==
    (dmesg # None /\ ~dmesg[1].ok) =>
        /\ pc \in {"poll", "scan"}
        /\ crash_history = Some(<<>>)

\* C16: in a pass that comes to its draw, the processes of the pass are
\* exactly the entries whose stat and status were both read: an entry with a
\* failed read is not in the process map, not in the list and in no children
\* map, and every other entry is in the map and in the list. A failed read
\* ends nothing: main ends only by one of its own calls.
C16_FailedReadsAreDropped ==
    /\ pc \in {"poll", "hung"} =>
          /\ failed = None
          /\ DOMAIN process_map = { p \in DOMAIN proc_reads : proc_reads[p].err = "none" }
          /\ Range(processes) = DOMAIN process_map
          /\ \A P \in DOMAIN process_map :
               \A C \in DOMAIN process_map[P].children :
                  C \in DOMAIN proc_reads /\ proc_reads[C].err = "none"
    /\ pc \in {"error", "panic"} =>
          failed \in { Some(call) : call \in ScanCalls \cup {"event", "reset_terminal", "overflow"} }

\* a stat read and a status read failed, the child of one of the two
\* processes was read and is drawn alone
C16_Witness ==
    /\ pc = "poll"
    /\ DOMAIN proc_reads = {1, 2, 3}
    /\ proc_reads[1].err = "stat"
    /\ proc_reads[2].err = "status"
    /\ proc_reads[3] = [err |-> "none", ppid |-> 2]
    /\ display.kind = "list"
    /\ display.rows = <<3>>

\* C17: the draw of the tree of the focused process returns for every
\* snapshot, also when a process is its own parent: neither the walk over
\* the parents nor the listing of the children goes on for ever.
C17_TreeDrawTerminates ==
    pc # "hung"

\* C18: a Left or Right key changes nothing but the view mode (and the index
\* it is taken from): the selected index, the scroll offset, the sort
\* criterion and the tree focus are after the key what they were before it,
\* in every state in which a key is read.
C18_LeftRightKeepSelectionAndSort ==
    [][ (KeyLeft \/ KeyRight)
        => /\ UNCHANGED <<selected_index, scroll_offset, sort_criteria, tree_view_pid>>
           /\ view_state' = view_states[view_i' + 1]
           /\ pc' = "scan" ]_vars

\* the view was changed after the second row was selected and the criterion
\* set to PID, and both are as they were
C18_Witness ==
    /\ pc = "scan"
    /\ view_i = 1
    /\ view_state = "CrashTracking"
    /\ selected_index = 1
    /\ sort_criteria = "PID"

\* C19 as claimed: a sort key sets the sort criterion to its own criterion
\* in whichever view it is pressed.
C19_SortKeysSetCriterionInAnyView ==
    [][ /\ (KeyC => sort_criteria' = "CPU")
        /\ (KeyM => sort_criteria' = "Memory")
        /\ (KeyP => sort_criteria' = "PID")
        /\ (KeyR => sort_criteria' = "PR") ]_vars

\* the list is in the order of the criterion
InOrder(procs, pm, crit) ==
    \A i, j \in 1..Len(procs) :
        i < j => ~CmpLess(pm[procs[j]], pm[procs[i]], crit)

\* C19 as amended: a sort key pressed in the Processes view sets the sort
\* criterion to its own criterion at once, and in the other views it changes
\* nothing; nothing else changes the criterion, and a sort key changes
\* nothing else. The list of the next pass drawn in the Processes view is in
\* the order of the criterion; in the other views the list is left in the
\* order of the map, whatever the criterion.
C19_SortKeysActInProcessesView ==
    [][ /\ (KeyC => sort_criteria' = IF view_state = "Processes" THEN "CPU" ELSE sort_criteria)
        /\ (KeyM => sort_criteria' = IF view_state = "Processes" THEN "Memory" ELSE sort_criteria)
        /\ (KeyP => sort_criteria' = IF view_state = "Processes" THEN "PID" ELSE sort_criteria)
        /\ (KeyR => sort_criteria' = IF view_state = "Processes" THEN "PR" ELSE sort_criteria)
        /\ (KeyC \/ KeyM \/ KeyP \/ KeyR
              => /\ UNCHANGED <<view_state, selected_index, scroll_offset, tree_view_pid, view_i>>
                 /\ pc' = "scan")
        /\ (sort_criteria' # sort_criteria
              => view_state = "Processes" /\ (KeyC \/ KeyM \/ KeyP \/ KeyR))
        /\ (pc = "scan" /\ pc' = "poll"
              => IF view_state = "Processes"
                 THEN InOrder(processes', process_map', sort_criteria)
                 ELSE processes' \in IterOrders(DOMAIN process_map')) ]_vars

\* the criterion was set to Priority and the list of the pass is in the
\* order of the priorities, which is not the order of the pids
C19_Witness ==
    /\ pc = "poll"
    /\ view_state = "Processes"
    /\ sort_criteria = "PR"
    /\ processes = <<3, 1, 2>>
    /\ display.kind = "list"

\* C20: the Quit key is the only key that ends the loop. After it main makes
\* no step: no pass, no draw, no signal. Every other key (Up, Down, Left,
\* Right, the sort keys, the focus key, the signal keys), in every state in
\* which a key is read and with any number of processes, is followed by the
\* next pass.
C20_OnlyQuitEndsTheLoop ==
    [][ /\ pc # "quit"
        /\ (KeyQ => pc' \notin {"scan", "poll"})
        /\ (KeyUp \/ KeyDown \/ KeyLeft \/ KeyRight
              \/ KeyC \/ KeyM \/ KeyP \/ KeyR
              \/ KeyT \/ KeyK \/ KeyS \/ KeyW
              => pc' = "scan") ]_vars

\* C21: a signal is requested only for a pid that was read in the same
\* pass, which is in the process map and in the list of that pass, and a
\* pass requests one signal at most. With the selected index outside the
\* list of the pass (no process, or fewer than before) the signal keys and
\* the focus key do nothing: no signal, no change of the view state, and the
\* next pass follows.
C21_SignalTargetsProcessOfThePass ==
    [][ /\ Len(signal') <= 1
        /\ (signal' # None
              => /\ pc = "poll"
                 /\ signal = None
                 /\ signal'[1].pid \in DOMAIN process_map
                 /\ signal'[1].pid \in Range(processes)
                 /\ signal'[1].pid \in DOMAIN proc_reads
                 /\ proc_reads[signal'[1].pid].err = "none")
        /\ ((KeyK \/ KeyS \/ KeyW \/ KeyT) /\ selected_index >= Len(processes)
              => /\ signal' = None
                 /\ UNCHANGED viewvars
                 /\ pc' = "scan") ]_vars

\* SIGCONT went to the process of the third row
C21_Witness ==
    /\ pc = "scan"
    /\ signal # None
    /\ signal[1].sig = "SIGCONT"
    /\ selected_index = 2
    /\ signal[1].ok

====
